---- MODULE Spec2Model ----
(***************************************************************************)
(* Model of the Sonar background script, src/src/pages/Background/index.js *)
(* : the startup of startTracking, the tabs.onUpdated listener, the cookie *)
(* heuristic, sendSaasVisitEvent and the two callbacks of its fetch.       *)
(*                                                                         *)
(* Strings that the code inspects character by character (cookie names    *)
(* and values, cookie name patterns) are sequences of one-character       *)
(* strings.  A Date is the number of the day in a non-leap year, 0 being   *)
(* January 1st; getDate turns it into the day of the month.                *)
(***************************************************************************)
EXTENDS Integers, Sequences, FiniteSets, TLC

\* ------------------------------------------------------------------------
\* Bounds of the model
\* ------------------------------------------------------------------------

\* number of tab notifications the host delivers
MaxNav == 2

\* the day on which the process starts (4 is January 5th)
FirstDay == 4

\* ------------------------------------------------------------------------
\* Values of the host environment
\* ------------------------------------------------------------------------

\* the value of a let that was never assigned, and of a missing property
Null == "null"

\* lengths of the months of a non-leap year
MonthLen == <<31, 28, 31, 30, 31, 30, 31, 31, 30, 31, 30, 31>>

RECURSIVE DayInMonth(_, _)
DayInMonth(d, m) ==
  IF d < MonthLen[m] THEN d + 1 ELSE DayInMonth(d - MonthLen[m], m + 1)

\* Date.prototype.getDate: the day of the month, 1..31
getDate(date) == DayInMonth(date, 1)

\* the dates at which the clock is read: the first day, the day after, and
\* the same day of the month one month later
ClockDays == {FirstDay, FirstDay + 1, FirstDay + MonthLen[1]}

\* changeInfo.url of a notification: absent, or one of these strings
NoUrl == "<absent>"

Urls ==
  { NoUrl,
    "not a url",
    "about:blank",
    "http://localhost/",
    "https://sub.example.com/path",
    "https://app.tracked.co.uk/",
    "https://www.other.org/" }

\* the strings the URL constructor rejects with a TypeError
MalformedUrls == {"not a url"}

\* new URL(s).hostname for the strings the constructor accepts
hostnameOf(url) ==
  CASE url = "about:blank" -> ""
    [] url = "http://localhost/" -> "localhost"
    [] url = "https://sub.example.com/path" -> "sub.example.com"
    [] url = "https://app.tracked.co.uk/" -> "app.tracked.co.uk"
    [] url = "https://www.other.org/" -> "www.other.org"

\* psl.parse(hostName)?.domain: the registrable domain, null when there is none
pslDomain(hostName) ==
  CASE hostName = "localhost" -> Null
    [] hostName = "sub.example.com" -> "example.com"
    [] hostName = "app.tracked.co.uk" -> "tracked.co.uk"
    [] hostName = "www.other.org" -> "other.org"

\* assets/json/trackedDomains.json
trackedDomainsList == {"example.com", "tracked.co.uk"}

\* the answers of chrome.identity.getProfileUserInfo
NoInfo == [email |-> Null, id |-> Null]

ProfileInfos ==
  { NoInfo,
    [email |-> "", id |-> "1234"],
    [email |-> "user@gmail.com", id |-> ""],
    [email |-> "user@gmail.com", id |-> "1234"] }

\* JavaScript truthiness of a string-or-null value
Truthy(v) == v # Null /\ v # ""

\* ------------------------------------------------------------------------
\* Cookies and the auth-cookie heuristic
\* ------------------------------------------------------------------------

\* String.prototype.includes on character sequences
Includes(s, sub) ==
  \E i \in 0..(Len(s) - Len(sub)) : SubSeq(s, i + 1, i + Len(sub)) = sub

\* lower case of the characters the cookie names of the model use
LowerChar(c) ==
  CASE c = "A" -> "a"
    [] c = "U" -> "u"
    [] c = "T" -> "t"
    [] c = "H" -> "h"
    [] OTHER -> c

Lower(s) == [i \in 1..Len(s) |-> LowerChar(s[i])]

\* new RegExp(authCookie, 'i').test(name) for a pattern without
\* metacharacters: a case-insensitive substring search
RegExpTestI(pattern, name) == Includes(Lower(name), Lower(pattern))

\* assets/json/authCookies.json
authCookiesList ==
  << <<"t","o","k","e","n">>, <<"a","u","t","h">>, <<"s","e","s","s","i","o","n">> >>

\* a cookie value that is null (cookie.value != null fails)
NullValue == <<"<null>">>

\* lines 26-35: the test of one cookie against one pattern
cookieIsAuth(authCookie, cookie) ==
  /\ RegExpTestI(authCookie, cookie.name)
  /\ cookie.value # NullValue
  /\ ~Includes(cookie.value, <<"f","a","l","s","e">>)
  /\ cookie.value # <<"n","o">>
  /\ cookie.value # <<"n">>
  /\ ~Includes(cookie.value, <<"u","n","d","e","f","i","n","e","d">>)
  /\ ~Includes(cookie.value, <<"n","u","l","l">>)
  /\ ~Includes(cookie.value, <<"u","n","s","p","e","c","i","f","i","e","d">>)

\* lines 19-44, from the answer of chrome.cookies.getAll on: the two loops
\* stop at the first cookie and pattern that pass the test
websiteHasLoginCookiesForUser(cookies) ==
  \E c \in 1..Len(cookies) : \E p \in 1..Len(authCookiesList) :
    cookieIsAuth(authCookiesList[p], cookies[c])

\* the answers of chrome.cookies.getAll the model draws from
CookieJars ==
  { <<>>,
    << [name |-> <<"t","h","e","m","e">>, value |-> <<"d","a","r","k">>] >>,
    << [name |-> <<"a","u","t","h","_","t","o","k","e","n">>,
        value |-> <<"a","b","c","1","2","3">>] >>,
    << [name |-> <<"A","U","T","H">>, value |-> <<"f","a","l","s","e">>] >>,
    << [name |-> <<"s","e","s","s","i","o","n">>, value |-> <<>>] >>,
    << [name |-> <<"t","o","k","e","n">>, value |-> NullValue] >>,
    << [name |-> <<"t","o","k","e","n">>, value |-> <<"n">>] >>,
    << [name |-> <<"m","y","a","u","t","h">>, value |-> <<"i","s","n","u","l","l">>] >>,
    << [name |-> <<"a","u","t","h">>, value |-> <<"u","n","d","e","f","i","n","e","d">>] >>,
    << [name |-> <<"a","u","t","h">>,
        value |-> <<"u","n","s","p","e","c","i","f","i","e","d">>] >>,
    << [name |-> <<"a","u","t">>, value |-> <<"a","b","c","1","2","3">>] >>,
    << [name |-> <<"t","o","k","e","n">>, value |-> <<"n","o">>],
       [name |-> <<"t","h","e","m","e">>, value |-> <<"x">>],
       [name |-> <<"A","u","t","h">>, value |-> <<"F","a","l","s","e">>] >> }

\* ------------------------------------------------------------------------
\* State
\* ------------------------------------------------------------------------

VARIABLES
  pc,                  \* where startTracking is: "start", "started", "failed"
  userEmail,           \* line 10
  userId,              \* line 11
  visitEventsTracked,  \* line 13: the Map, a function from its keys to records
  listener,            \* whether the onUpdated listener is installed
  handlers,            \* listener invocations waiting for chrome.cookies.getAll
  fetches,             \* the POSTs issued so far, in order, with their state
  today,               \* the date new Date() returns
  navCount,            \* number of notifications delivered by the host
  queried,             \* the numbers of the notifications for which the listener
                       \* issued chrome.cookies.getAll
  firstNav,            \* for each tracked domain the listener was notified about,
                       \* the number of the first such notification
  last                 \* the step taken last and what it did

vars ==
  << pc, userEmail, userId, visitEventsTracked, listener, handlers, fetches,
     today, navCount, queried, firstNav, last >>

\* the description of a step
Step(op, nav, url, domain, fresh, emitted, threw) ==
  [op |-> op, nav |-> nav, url |-> url, domain |-> domain, fresh |-> fresh,
   emitted |-> emitted, threw |-> threw, cookies |-> <<>>]

\* Map.prototype.has, get and set
MapHas(m, k) == k \in DOMAIN m

MapGet(m, k) == m[k]

MapSet(m, k, v) == [x \in (DOMAIN m) \cup {k} |-> IF x = k THEN v ELSE m[x]]

EmptyMap == [x \in {} |-> 0]

Init ==
  /\ pc = "start"
  /\ userEmail = Null
  /\ userId = Null
  /\ visitEventsTracked = EmptyMap
  /\ listener = FALSE
  /\ handlers = {}
  /\ fetches = <<>>
  /\ today = FirstDay
  /\ navCount = 0
  /\ queried = {}
  /\ firstNav = EmptyMap
  /\ last = Step("init", 0, NoUrl, Null, FALSE, FALSE, FALSE)

\* ------------------------------------------------------------------------
\* startTracking, lines 82-134
\* ------------------------------------------------------------------------

\* the check of line 91 written with && : one of the two values is enough
identityMissingBoth(email, id) == ~Truthy(email) /\ ~Truthy(id)

\* line 91: !userEmail || !userId
identityMissing(email, id) == ~Truthy(email) \/ ~Truthy(id)

\* lines 87-133: getProfileUserInfo answers; the identity is stored, and
\* unless the email or the id is missing the listener is installed (the await
\* of line 98 resumes before the host delivers any notification)
GetProfileResolved(info) ==
  /\ pc = "start"
  /\ userEmail' = info.email
  /\ userId' = info.id
  /\ IF identityMissing(info.email, info.id)
       THEN /\ pc' = "failed"
            /\ listener' = listener
       ELSE /\ pc' = "started"
            /\ listener' = TRUE
  /\ last' = Step("getProfileResolved", 0, NoUrl, Null, FALSE, FALSE, FALSE)
  /\ UNCHANGED <<visitEventsTracked, handlers, fetches, today, navCount, queried, firstNav>>

\* lines 87 and 131-133: getProfileUserInfo rejects, the catch logs the error
GetProfileRejected ==
  /\ pc = "start"
  /\ pc' = "failed"
  /\ last' = Step("getProfileRejected", 0, NoUrl, Null, FALSE, FALSE, TRUE)
  /\ UNCHANGED <<userEmail, userId, visitEventsTracked, listener, handlers,
                 fetches, today, navCount, queried, firstNav>>

\* ------------------------------------------------------------------------
\* The onUpdated listener, lines 98-128
\* ------------------------------------------------------------------------

\* every domain counts as tracked
websiteIsTrackedAny(domain) == TRUE

\* line 16
websiteIsTracked(domain) == domain \in trackedDomainsList

\* line 99: new URL(changeInfo.url) throws a TypeError
urlThrows(url) == url \in MalformedUrls

\* lines 99-101, when line 99 does not throw
domainOf(url) ==
  LET hostName == IF url = NoUrl THEN Null ELSE hostnameOf(url)
  IN  IF Truthy(hostName) THEN pslDomain(hostName) ELSE Null

\* a tab notification while no listener is installed: nothing runs
TabUpdatedUnheard(url) ==
  /\ ~listener
  /\ navCount < MaxNav
  /\ navCount' = navCount + 1
  /\ last' = Step("tabUpdatedUnheard", navCount + 1, url, Null, FALSE, FALSE, FALSE)
  /\ UNCHANGED <<pc, userEmail, userId, visitEventsTracked, listener, handlers,
                 fetches, today, queried, firstNav>>

\* lines 98-107: the listener runs up to the await of the cookie query.  It
\* throws at line 99, or returns at once for a domain that is not tracked, or
\* issues chrome.cookies.getAll and waits
OnUpdated(url) ==
  /\ listener
  /\ navCount < MaxNav
  /\ navCount' = navCount + 1
  /\ IF urlThrows(url)
       THEN /\ last' = Step("onUpdated", navCount + 1, url, Null, FALSE, FALSE, TRUE)
            /\ UNCHANGED <<handlers, queried, firstNav>>
       ELSE LET domain == domainOf(url)
            IN  IF Truthy(domain) /\ websiteIsTracked(domain)
                  THEN /\ handlers' = handlers \cup
                            {[nav |-> navCount + 1, domain |-> domain, url |-> url]}
                       /\ queried' = queried \cup {navCount + 1}
                       /\ firstNav' = IF MapHas(firstNav, domain)
                                        THEN firstNav
                                        ELSE MapSet(firstNav, domain, navCount + 1)
                       /\ last' = Step("onUpdated", navCount + 1, url, domain,
                                       FALSE, FALSE, FALSE)
                  ELSE /\ last' = Step("onUpdated", navCount + 1, url, domain,
                                       FALSE, FALSE, FALSE)
                       /\ UNCHANGED <<handlers, queried, firstNav>>
  /\ UNCHANGED <<pc, userEmail, userId, visitEventsTracked, listener, fetches, today>>

\* the condition without the rules on a change of the heuristic result
shouldSendNoToggle(m, domain, websiteHasAuthCookie, currentDate) ==
  \/ ~MapHas(m, domain)
  \/ getDate(MapGet(m, domain).date) # currentDate

\* the condition with a comparison of the whole dates
shouldSendFullDate(m, domain, websiteHasAuthCookie, currentDate) ==
  \/ ~MapHas(m, domain)
  \/ (websiteHasAuthCookie = FALSE /\ MapGet(m, domain).hasAuthCookies = TRUE)
  \/ (websiteHasAuthCookie = TRUE /\ MapGet(m, domain).hasAuthCookies = FALSE)
  \/ MapGet(m, domain).date # today

\* the condition that takes an empty cache for a missing record
shouldSendMapEmpty(m, domain, websiteHasAuthCookie, currentDate) ==
  \/ DOMAIN m = {}
  \/ /\ MapHas(m, domain)
     /\ \/ (websiteHasAuthCookie = FALSE /\ MapGet(m, domain).hasAuthCookies = TRUE)
        \/ (websiteHasAuthCookie = TRUE /\ MapGet(m, domain).hasAuthCookies = FALSE)
        \/ getDate(MapGet(m, domain).date) # currentDate

\* the condition that sends on every navigation
shouldSendAlways(m, domain, websiteHasAuthCookie, currentDate) == TRUE

\* lines 116-123: the condition under which the listener sends an event
shouldSend(m, domain, websiteHasAuthCookie, currentDate) ==
  \/ ~MapHas(m, domain)
  \/ (websiteHasAuthCookie = FALSE /\ MapGet(m, domain).hasAuthCookies = TRUE)
  \/ (websiteHasAuthCookie = TRUE /\ MapGet(m, domain).hasAuthCookies = FALSE)
  \/ getDate(MapGet(m, domain).date) # currentDate

\* the payload with the id and the email exchanged
visitEventSwapped(domain, hasAuthCookies) ==
  [userId |-> userEmail, userEmail |-> userId, domain |-> domain,
   hasAuthCookies |-> hasAuthCookies, date |-> today]

\* lines 48-54: the payload
visitEvent(domain, hasAuthCookies) ==
  [userId |-> userId, userEmail |-> userEmail, domain |-> domain,
   hasAuthCookies |-> hasAuthCookies, date |-> today]

\* lines 47-62: sendSaasVisitEvent up to the call of fetch; the POST is issued
\* and its promise is pending
\* sendSaasVisitEvent issuing the POST twice
sendSaasVisitEventTwice(fs, nav, domain, hasAuthCookies) ==
  LET entry == [visitEvent |-> visitEvent(domain, hasAuthCookies), nav |-> nav,
                status |-> "pending",
                hadRecord |-> MapHas(visitEventsTracked, domain),
                overtaken |-> FALSE, latest |-> FALSE]
  IN  Append(Append(fs, entry), entry)

\* Each entry also notes whether the decision found a record of the domain
\* (hadRecord) and, later, whether a delivery for the domain has succeeded
\* since the POST was issued (overtaken) and whether its own delivery is the
\* last one that succeeded for the domain (latest)
sendSaasVisitEvent(fs, nav, domain, hasAuthCookies) ==
  Append(fs, [visitEvent |-> visitEvent(domain, hasAuthCookies), nav |-> nav,
              status |-> "pending",
              hadRecord |-> MapHas(visitEventsTracked, domain),
              overtaken |-> FALSE, latest |-> FALSE])

\* lines 105-126: chrome.cookies.getAll answers; the heuristic is computed,
\* the cache is read, and the event is sent or suppressed
CookiesResolved(h, cookies) ==
  /\ h \in handlers
  /\ LET websiteHasAuthCookie == websiteHasLoginCookiesForUser(cookies)
         currentDate == getDate(today)
         send == shouldSend(visitEventsTracked, h.domain, websiteHasAuthCookie,
                            currentDate)
     IN  /\ fetches' = IF send
                         THEN sendSaasVisitEvent(fetches, h.nav, h.domain,
                                                 websiteHasAuthCookie)
                         ELSE fetches
         /\ last' = [Step("cookiesResolved", h.nav, NoUrl, h.domain,
                              websiteHasAuthCookie, send, FALSE)
                           EXCEPT !.cookies = cookies]
  /\ handlers' = handlers \ {h}
  /\ UNCHANGED <<pc, userEmail, userId, visitEventsTracked, listener, today,
                 navCount, queried, firstNav>>

\* lines 23 and 105: chrome.cookies.getAll rejects; the rejection leaves
\* websiteHasLoginCookiesForUser and the listener, whose promise rejects
CookiesRejected(h) ==
  /\ h \in handlers
  /\ handlers' = handlers \ {h}
  /\ last' = Step("cookiesRejected", h.nav, NoUrl, h.domain, FALSE, FALSE, TRUE)
  /\ UNCHANGED <<pc, userEmail, userId, visitEventsTracked, listener, fetches,
                 today, navCount, queried, firstNav>>

\* ------------------------------------------------------------------------
\* The callbacks of the fetch, lines 63-78
\* ------------------------------------------------------------------------

\* a then callback that dates the record at the time the delivery completes
thenCallbackNow(m, ev) ==
  MapSet(m, ev.domain, [date |-> today, hasAuthCookies |-> ev.hasAuthCookies])

\* a then callback that keeps the record the domain already has
thenCallbackKeep(m, ev) ==
  IF MapHas(m, ev.domain)
    THEN m
    ELSE MapSet(m, ev.domain, [date |-> ev.date, hasAuthCookies |-> ev.hasAuthCookies])

\* lines 63-72: the then callback stores the record of the event
thenCallback(m, ev) ==
  MapSet(m, ev.domain, [date |-> ev.date, hasAuthCookies |-> ev.hasAuthCookies])

\* a catch callback that drops the record of the domain
catchCallbackDrop(m, ev) == [x \in (DOMAIN m) \ {ev.domain} |-> m[x]]

\* lines 73-78: the catch callback only logs
catchCallback(m, ev) == m

FetchFulfilled(i) ==
  /\ i \in 1..Len(fetches)
  /\ fetches[i].status = "pending"
  /\ fetches' = [j \in 1..Len(fetches) |->
                   IF j = i
                     THEN [fetches[j] EXCEPT !.status = "fulfilled", !.latest = TRUE]
                     ELSE IF fetches[j].visitEvent.domain = fetches[i].visitEvent.domain
                            THEN [fetches[j] EXCEPT !.overtaken = TRUE,
                                                    !.latest = FALSE]
                            ELSE fetches[j]]
  /\ visitEventsTracked' = thenCallback(visitEventsTracked, fetches[i].visitEvent)
  /\ last' = Step("fetchFulfilled", fetches[i].nav, NoUrl,
                  fetches[i].visitEvent.domain,
                  fetches[i].visitEvent.hasAuthCookies, FALSE, FALSE)
  /\ UNCHANGED <<pc, userEmail, userId, listener, handlers, today, navCount,
                 queried, firstNav>>

FetchRejected(i) ==
  /\ i \in 1..Len(fetches)
  /\ fetches[i].status = "pending"
  /\ fetches' = [fetches EXCEPT ![i].status = "rejected"]
  /\ visitEventsTracked' = catchCallback(visitEventsTracked, fetches[i].visitEvent)
  /\ last' = Step("fetchRejected", fetches[i].nav, NoUrl,
                  fetches[i].visitEvent.domain,
                  fetches[i].visitEvent.hasAuthCookies, FALSE, FALSE)
  /\ UNCHANGED <<pc, userEmail, userId, listener, handlers, today, navCount,
                 queried, firstNav>>

\* ------------------------------------------------------------------------
\* The clock
\* ------------------------------------------------------------------------

\* time passes: the next reading of the clock is a later day
ClockAdvances(d) ==
  /\ d \in ClockDays
  /\ d > today
  /\ today' = d
  /\ last' = Step("clockAdvances", 0, NoUrl, Null, FALSE, FALSE, FALSE)
  /\ UNCHANGED <<pc, userEmail, userId, visitEventsTracked, listener, handlers,
                 fetches, navCount, queried, firstNav>>

Next ==
  \/ \E info \in ProfileInfos : GetProfileResolved(info)
  \/ GetProfileRejected
  \/ \E url \in Urls : TabUpdatedUnheard(url)
  \/ \E url \in Urls : OnUpdated(url)
  \/ \E h \in handlers : \E cookies \in CookieJars : CookiesResolved(h, cookies)
  \/ \E h \in handlers : CookiesRejected(h)
  \/ \E i \in 1..Len(fetches) : FetchFulfilled(i)
  \/ \E i \in 1..Len(fetches) : FetchRejected(i)
  \/ \E d \in ClockDays : ClockAdvances(d)

Spec == Init /\ [][Next]_vars

\* ------------------------------------------------------------------------
\* The process after a first visit
\* ------------------------------------------------------------------------

\* The state of the process once the identity is known, the listener is
\* installed, and a first visit of example.com on the first day was sent and
\* delivered (lines 63-72 stored its record).  That first notification has
\* the number 0; navCount counts the notifications that follow.
WarmInit ==
  \E b \in BOOLEAN :
    LET ev == [userId |-> "1234", userEmail |-> "user@gmail.com",
               domain |-> "example.com", hasAuthCookies |-> b, date |-> FirstDay]
    IN  /\ pc = "started"
        /\ userEmail = "user@gmail.com"
        /\ userId = "1234"
        /\ listener = TRUE
        /\ visitEventsTracked = thenCallback(EmptyMap, ev)
        /\ handlers = {}
        /\ fetches = << [visitEvent |-> ev, nav |-> 0, status |-> "fulfilled",
                         hadRecord |-> FALSE, overtaken |-> FALSE,
                         latest |-> TRUE] >>
        /\ today = FirstDay
        /\ navCount = 0
        /\ queried = {0}
        /\ firstNav = MapSet(EmptyMap, "example.com", 0)
        /\ last = Step("fetchFulfilled", 0, NoUrl, "example.com", b, FALSE, FALSE)

WarmNext ==
  \/ \E url \in Urls : OnUpdated(url)
  \/ \E h \in handlers : \E cookies \in CookieJars : CookiesResolved(h, cookies)
  \/ \E h \in handlers : CookiesRejected(h)
  \/ \E i \in 1..Len(fetches) : FetchFulfilled(i)
  \/ \E i \in 1..Len(fetches) : FetchRejected(i)
  \/ \E d \in ClockDays : ClockAdvances(d)

SpecWarm == WarmInit /\ [][WarmNext]_vars

\* ------------------------------------------------------------------------
\* Types
\* ------------------------------------------------------------------------

TypeOK ==
  /\ pc \in {"start", "started", "failed"}
  /\ listener \in BOOLEAN
  /\ today \in ClockDays
  /\ navCount \in 0..MaxNav
  /\ queried \subseteq 0..navCount
  /\ DOMAIN firstNav \subseteq trackedDomainsList
  /\ \A h \in handlers : h.nav \in 1..navCount /\ h.nav \in queried
  /\ \A i \in 1..Len(fetches) :
       fetches[i].status \in {"pending", "fulfilled", "rejected"}

\* ------------------------------------------------------------------------
\* Vocabulary of the properties
\* ------------------------------------------------------------------------

\* the step just taken is the decision of a listener invocation
Decided == last'.op = "cookiesResolved"

\* the step just taken issued one POST; Sent(d, b) also gives its content
SentOne == Len(fetches') = Len(fetches) + 1 /\ SubSeq(fetches', 1, Len(fetches)) = fetches

Sent(d, b) ==
  /\ SentOne
  /\ fetches'[Len(fetches')].visitEvent.domain = d
  /\ fetches'[Len(fetches')].visitEvent.hasAuthCookies = b

\* the record a delivered event leaves in the cache
RecordOf(ev) == [date |-> ev.date, hasAuthCookies |-> ev.hasAuthCookies]

\* the POSTs issued for the notification n
FetchesOf(n) == {i \in 1..Len(fetches) : fetches[i].nav = n}

\* ------------------------------------------------------------------------
\* C1
\* ------------------------------------------------------------------------

\* C1: no POST is ever issued for a domain outside the tracked-domain list,
\* and a notification whose registrable domain is not in the list issues no
\* cookie query, no POST, and leaves the cache as it was.
C1_UntrackedNeverSent ==
  /\ [](\A i \in 1..Len(fetches) : fetches[i].visitEvent.domain \in trackedDomainsList)
  /\ [][(last'.op = "onUpdated" /\ last'.domain \notin trackedDomainsList)
          => UNCHANGED <<handlers, fetches, visitEventsTracked>>]_vars

\* an event was sent before, and the listener has just handled a
\* notification for a domain that is not tracked
C1_Witness ==
  /\ last.op = "onUpdated"
  /\ last.domain = "other.org"
  /\ Len(fetches) > 0

\* ------------------------------------------------------------------------
\* C2
\* ------------------------------------------------------------------------

\* C2: once the listener invocation of the first notification for a tracked
\* domain has run to its end, exactly one POST has been issued for that
\* notification.
C2_FirstNavigationSendsOne ==
  \A d \in DOMAIN firstNav :
    (\A h \in handlers : h.nav # firstNav[d])
      => Cardinality(FetchesOf(firstNav[d])) = 1

\* ------------------------------------------------------------------------
\* C3
\* ------------------------------------------------------------------------

C4_ToggleSends ==
  [][(/\ Decided
      /\ MapHas(visitEventsTracked, last'.domain)
      /\ MapGet(visitEventsTracked, last'.domain).hasAuthCookies = ~last'.fresh)
       => Sent(last'.domain, last'.fresh)]_vars

\* an event was just sent on the day of the month of the record, because the
\* result of the heuristic changed
C4_Witness ==
  /\ last.op = "cookiesResolved"
  /\ last.emitted
  /\ MapHas(visitEventsTracked, last.domain)
  /\ MapGet(visitEventsTracked, last.domain).hasAuthCookies = ~last.fresh
  /\ getDate(MapGet(visitEventsTracked, last.domain).date) = getDate(today)
  /\ fetches[Len(fetches)].visitEvent.hasAuthCookies = last.fresh

\* ------------------------------------------------------------------------
\* C5
\* ------------------------------------------------------------------------

C6_FailureKeepsCache ==
  [][last'.op = "fetchRejected" => visitEventsTracked' = visitEventsTracked]_vars

\* a delivery for a domain that has a record has just failed
C6_Witness ==
  /\ last.op = "fetchRejected"
  /\ MapHas(visitEventsTracked, last.domain)

\* ------------------------------------------------------------------------
\* C7
\* ------------------------------------------------------------------------

\* C7: the cache changes only in the step that handles the success of a
\* delivery, which sets the record of the domain of the delivered event to
\* the date and hasAuthCookies of that event and leaves the other records;
\* and every record is that of some event whose delivery succeeded.
C7_CacheWrittenOnSuccessOnly ==
  /\ [][visitEventsTracked' # visitEventsTracked =>
          /\ last'.op = "fetchFulfilled"
          /\ \E i \in 1..Len(fetches) :
               /\ fetches[i].status = "pending"
               /\ fetches'[i].status = "fulfilled"
               /\ DOMAIN visitEventsTracked'
                    = (DOMAIN visitEventsTracked) \cup {fetches[i].visitEvent.domain}
               /\ visitEventsTracked'[fetches[i].visitEvent.domain]
                    = RecordOf(fetches[i].visitEvent)
               /\ \A x \in (DOMAIN visitEventsTracked) \ {fetches[i].visitEvent.domain} :
                    visitEventsTracked'[x] = visitEventsTracked[x]]_vars
  /\ [](\A d \in DOMAIN visitEventsTracked :
          \E i \in 1..Len(fetches) :
            /\ fetches[i].status = "fulfilled"
            /\ fetches[i].visitEvent.domain = d
            /\ visitEventsTracked[d] = RecordOf(fetches[i].visitEvent))

\* a delivery that completed on a later day than its event was sent has just
\* overwritten the record of the domain
C7_Witness ==
  /\ last.op = "fetchFulfilled"
  /\ \E i \in 1..Len(fetches) :
       /\ fetches[i].nav = last.nav
       /\ fetches[i].visitEvent.date < today
       /\ visitEventsTracked[last.domain] = RecordOf(fetches[i].visitEvent)
  /\ \E j \in 1..Len(fetches) :
       /\ fetches[j].nav # last.nav
       /\ fetches[j].status = "fulfilled"
       /\ fetches[j].visitEvent.domain = last.domain
       /\ RecordOf(fetches[j].visitEvent) # visitEventsTracked[last.domain]

\* ------------------------------------------------------------------------
\* C8
\* ------------------------------------------------------------------------

\* C8: when the cache holds a record for the domain with the fresh result
\* and the current day of the month, the decision issues no POST and leaves
\* the cache and the identity as they were.
C8_SuppressionChangesNothing ==
  [][(/\ Decided
      /\ MapHas(visitEventsTracked, last'.domain)
      /\ MapGet(visitEventsTracked, last'.domain).hasAuthCookies = last'.fresh
      /\ getDate(MapGet(visitEventsTracked, last'.domain).date) = getDate(today))
       => UNCHANGED <<fetches, visitEventsTracked, userId, userEmail>>]_vars

\* a navigation on the day of the record, with its result, was just handled
C8_Witness ==
  /\ last.op = "cookiesResolved"
  /\ MapHas(visitEventsTracked, last.domain)
  /\ MapGet(visitEventsTracked, last.domain)
       = [date |-> today, hasAuthCookies |-> last.fresh]
  /\ ~last.emitted
  /\ Len(fetches) = 1

\* ------------------------------------------------------------------------
\* C9
\* ------------------------------------------------------------------------

\* C9: once the identity query has answered without an email or without an
\* id, or has failed, no listener is installed, no cookie query and no POST
\* has been issued and the cache is empty, whatever notifications arrive.
C9_NoIdentityNoTracking ==
  (pc # "start" /\ (~Truthy(userEmail) \/ ~Truthy(userId)))
    => /\ ~listener
       /\ handlers = {}
       /\ fetches = <<>>
       /\ DOMAIN visitEventsTracked = {}

\* the identity came with an email and without an id, and a notification for
\* a tracked domain has arrived since
C9_Witness ==
  /\ pc = "failed"
  /\ Truthy(userEmail)
  /\ ~Truthy(userId)
  /\ last.op = "tabUpdatedUnheard"
  /\ last.url = "https://sub.example.com/path"

\* ------------------------------------------------------------------------
\* C10
\* ------------------------------------------------------------------------

\* C10: the listener invocation for a notification whose URL is absent or
\* malformed ends without throwing.
C10_BadUrlDoesNotThrow ==
  (last.op = "onUpdated" /\ (last.url = NoUrl \/ last.url \in MalformedUrls))
    => ~last.threw

\* ------------------------------------------------------------------------
\* C11
\* ------------------------------------------------------------------------

\* C11: when the cookie query of a navigation fails, the listener invocation
\* ends without an error, and with no record of the domain it has sent an
\* event whose hasAuthCookies is false.
C11_QueryFailureCountsAsFalse ==
  last.op = "cookiesRejected" =>
    /\ ~last.threw
    /\ ~MapHas(visitEventsTracked, last.domain) =>
         \E i \in FetchesOf(last.nav) : fetches[i].visitEvent.hasAuthCookies = FALSE

\* ------------------------------------------------------------------------
\* C12
\* ------------------------------------------------------------------------

\* C12: when an event of the domain with the fresh result was sent, its
\* delivery failed and no delivery for the domain has succeeded since it was
\* sent, the decision sends an event again.
C12_RetryAfterFailure ==
  [][(Decided /\ \E i \in 1..Len(fetches) :
                   /\ fetches[i].visitEvent.domain = last'.domain
                   /\ fetches[i].visitEvent.hasAuthCookies = last'.fresh
                   /\ fetches[i].status = "rejected"
                   /\ ~fetches[i].overtaken)
       => Sent(last'.domain, last'.fresh)]_vars

\* ------------------------------------------------------------------------
\* C13
\* ------------------------------------------------------------------------

\* the registrable domain of a URL the constructor accepts
RegistrableDomain(url) == pslDomain(hostnameOf(url))

\* C13: every event sent carries the userId and userEmail of the process,
\* both non-empty, and a tracked domain; the event a decision sends carries
\* the registrable domain of the URL of its notification and the result of the
\* heuristic on the cookies that invocation received; and once the identity
\* query has answered the identity never changes.
C13_PayloadOfEvent ==
  /\ [](\A i \in 1..Len(fetches) :
          /\ fetches[i].visitEvent.userId = userId
          /\ fetches[i].visitEvent.userEmail = userEmail
          /\ fetches[i].visitEvent.userId \in {info.id : info \in ProfileInfos} \ {Null, ""}
          /\ fetches[i].visitEvent.userEmail
               \in {info.email : info \in ProfileInfos} \ {Null, ""}
          /\ fetches[i].visitEvent.domain \in trackedDomainsList)
  /\ [][(Decided /\ SentOne) =>
          \E h \in handlers :
            /\ h.nav = last'.nav
            /\ fetches'[Len(fetches')].visitEvent.domain = RegistrableDomain(h.url)
            /\ fetches'[Len(fetches')].visitEvent.hasAuthCookies
                 = websiteHasLoginCookiesForUser(last'.cookies)]_vars
  /\ [][pc # "start" => UNCHANGED <<pc, userId, userEmail>>]_vars

\* two events were sent, with the two results of the heuristic
C13_Witness ==
  /\ Len(fetches) = 2
  /\ fetches[1].visitEvent.hasAuthCookies # fetches[2].visitEvent.hasAuthCookies
  /\ fetches[2].visitEvent.userId = "1234"
  /\ fetches[2].visitEvent.userEmail = "user@gmail.com"
  /\ last.op = "cookiesResolved"
  /\ last.emitted

\* ------------------------------------------------------------------------
\* C14
\* ------------------------------------------------------------------------

\* the value filter as the claim words it
AcceptableValue(value) ==
  /\ value # NullValue
  /\ value # <<>>
  /\ value \notin {<<"f","a","l","s","e">>, <<"n","o">>, <<"n">>}
  /\ ~Includes(value, <<"f","a","l","s","e">>)
  /\ ~Includes(value, <<"u","n","d","e","f","i","n","e","d">>)
  /\ ~Includes(value, <<"n","u","l","l">>)
  /\ ~Includes(value, <<"u","n","s","p","e","c","i","f","i","e","d">>)

\* C14: the heuristic answers true exactly when some cookie has a name that
\* matches a pattern of the list, whatever the case, and a value that is not
\* empty, is not false, no or n, and contains none of false, undefined, null,
\* unspecified.
C14_HeuristicIffAcceptableCookie ==
  last.op = "cookiesResolved" =>
    (last.fresh <=>
       \E c \in 1..Len(last.cookies) :
         /\ \E p \in 1..Len(authCookiesList) :
              RegExpTestI(authCookiesList[p], last.cookies[c].name)
         /\ AcceptableValue(last.cookies[c].value))

\* ------------------------------------------------------------------------
\* C15
\* ------------------------------------------------------------------------

\* C15: when two events of one domain were both sent by decisions that found
\* no record of the domain and both were delivered, the record of the domain
\* right after the later delivery is the one of the event delivered then.
C15_RaceLastWriteWins ==
  \A i, j \in 1..Len(fetches) :
    (/\ i # j
     /\ fetches[i].visitEvent.domain = fetches[j].visitEvent.domain
     /\ ~fetches[i].hadRecord /\ ~fetches[j].hadRecord
     /\ fetches[i].status = "fulfilled" /\ fetches[j].status = "fulfilled"
     /\ last.op = "fetchFulfilled" /\ last.nav = fetches[j].nav)
      => /\ MapHas(visitEventsTracked, fetches[j].visitEvent.domain)
         /\ MapGet(visitEventsTracked, fetches[j].visitEvent.domain)
              = RecordOf(fetches[j].visitEvent)

\* two navigations to one domain both found no record and both sent an
\* event, with different contents; both deliveries succeeded, and the record
\* is the one of the delivery that completed last
C15_Witness ==
  /\ Len(fetches) = 2
  /\ fetches[1].visitEvent.domain = fetches[2].visitEvent.domain
  /\ ~fetches[1].hadRecord /\ ~fetches[2].hadRecord
  /\ fetches[1].status = "fulfilled" /\ fetches[2].status = "fulfilled"
  /\ RecordOf(fetches[1].visitEvent) # RecordOf(fetches[2].visitEvent)
  /\ last.op = "fetchFulfilled" /\ last.nav = fetches[2].nav
  /\ fetches[1].overtaken
  /\ visitEventsTracked[fetches[2].visitEvent.domain] = RecordOf(fetches[2].visitEvent)

\* ------------------------------------------------------------------------
\* C16
\* ------------------------------------------------------------------------

\* C16: the events sent are at most as many as the notifications for which
\* the listener issued a cookie query, each such notification whose
\* invocation has ended having at most one; a POST is issued only by a
\* decision, one at a time; and the record of a domain changes only in a
\* step in which a pending delivery of that domain succeeds.
C16_EventsFollowNotifications ==
  /\ [](/\ Len(fetches) <= Cardinality(queried)
        /\ \A i \in 1..Len(fetches) :
             /\ fetches[i].nav \in queried
             /\ \A h \in handlers : h.nav # fetches[i].nav
             /\ \A j \in 1..Len(fetches) : fetches[j].nav = fetches[i].nav => j = i)
  /\ [][Len(fetches') # Len(fetches) => (Decided /\ SentOne)]_vars
  /\ [][\A d \in (DOMAIN visitEventsTracked) \cup (DOMAIN visitEventsTracked') :
          (\/ ~MapHas(visitEventsTracked, d)
           \/ ~MapHas(visitEventsTracked', d)
           \/ visitEventsTracked'[d] # visitEventsTracked[d])
            => \E i \in 1..Len(fetches) :
                 /\ fetches[i].visitEvent.domain = d
                 /\ fetches[i].status = "pending"
                 /\ fetches'[i].status = "fulfilled"]_vars

\* the delivery of an event is still pending on a later day, after another
\* notification for a tracked domain was handled to its end: the cache is empty
C16_Witness ==
  /\ Len(fetches) = 1
  /\ fetches[1].status = "pending"
  /\ fetches[1].visitEvent.date < today
  /\ Cardinality(queried) = 2
  /\ handlers = {}
  /\ DOMAIN visitEventsTracked = {}

\* ------------------------------------------------------------------------
\* C17
\* ------------------------------------------------------------------------

\* C17: every key of the cache is a domain of the tracked-domain list, and a
\* key of the cache remains one.
C17_KeysTrackedAndKept ==
  /\ [](DOMAIN visitEventsTracked \subseteq trackedDomainsList)
  /\ [][\A d \in DOMAIN visitEventsTracked : d \in DOMAIN visitEventsTracked']_vars

\* every tracked domain has a record
C17_Witness ==
  /\ DOMAIN visitEventsTracked = trackedDomainsList
  /\ last.op = "fetchFulfilled"

\* ------------------------------------------------------------------------
\* C18
\* ------------------------------------------------------------------------

\* C18 as stated: the success of a delivery never replaces the record of the
\* domain, which is that of the delivery that succeeded last, by the record
\* of an event that was sent earlier.
C18_RecordNeverGoesBack ==
  [][last'.op = "fetchFulfilled" =>
       \A i, j \in 1..Len(fetches) :
         (/\ fetches[i].status = "pending" /\ fetches'[i].status = "fulfilled"
          /\ fetches[j].latest
          /\ fetches[j].visitEvent.domain = fetches[i].visitEvent.domain)
           => j < i]_vars

\* C18 as amended: the record of a domain is the one of the event of that
\* domain whose delivery succeeded last, whenever that event was sent.
C18_RecordOfLastDelivered ==
  \A d \in DOMAIN visitEventsTracked :
    \E i \in 1..Len(fetches) :
      /\ fetches[i].status = "fulfilled"
      /\ fetches[i].visitEvent.domain = d
      /\ fetches[i].latest
      /\ visitEventsTracked[d] = RecordOf(fetches[i].visitEvent)
      /\ \A j \in 1..Len(fetches) :
           (fetches[j].visitEvent.domain = d /\ fetches[j].latest) => j = i

\* all deliveries have completed, and the record of the domain is the one of
\* the event sent first, which was delivered after the event sent second
C18_Witness ==
  /\ Len(fetches) = 2
  /\ handlers = {}
  /\ fetches[1].visitEvent.domain = fetches[2].visitEvent.domain
  /\ fetches[1].status = "fulfilled" /\ fetches[2].status = "fulfilled"
  /\ fetches[1].latest /\ ~fetches[2].latest
  /\ fetches[1].visitEvent.date < fetches[2].visitEvent.date
  /\ visitEventsTracked[fetches[1].visitEvent.domain] = RecordOf(fetches[1].visitEvent)

\* ------------------------------------------------------------------------
\* C19
\* ------------------------------------------------------------------------

\* C19: a step of the listener or of a delivery for one domain leaves the
\* record of every other domain as it was, present or absent; and a decision
\* for a domain sends an event exactly when that domain has no record, or its
\* record has another hasAuthCookies than the fresh result, or another day of
\* the month than the current day.
C19_DomainsIndependent ==
  /\ [][\A b \in trackedDomainsList :
          (last'.op \in {"onUpdated", "cookiesResolved", "cookiesRejected",
                         "fetchFulfilled", "fetchRejected"}
           /\ last'.domain # b)
            => /\ MapHas(visitEventsTracked', b) <=> MapHas(visitEventsTracked, b)
               /\ MapHas(visitEventsTracked, b)
                    => visitEventsTracked'[b] = visitEventsTracked[b]]_vars
  /\ [][Decided =>
          (SentOne <=>
             \/ ~MapHas(visitEventsTracked, last'.domain)
             \/ visitEventsTracked[last'.domain].hasAuthCookies # last'.fresh
             \/ getDate(visitEventsTracked[last'.domain].date) # getDate(today))]_vars

\* a first navigation to one domain has just sent an event while the other
\* domain has a record
C19_Witness ==
  /\ last.op = "cookiesResolved"
  /\ last.emitted
  /\ last.domain = "tracked.co.uk"
  /\ ~MapHas(visitEventsTracked, "tracked.co.uk")
  /\ MapHas(visitEventsTracked, "example.com")

====
